---- MODULE Spec2Model ----
(***************************************************************************)
(* The inference pipeline of the heart-attack-risk service:                *)
(*   src/src/preprocessing/preprocessor.py  DataPreprocessor               *)
(*   src/src/prediction/predictor.py        ModelPredictor                 *)
(*   src/src/utils/config.py                Config                         *)
(*   src/src/api/main.py                    startup_event                  *)
(*                                                                         *)
(* Numbers are fixed-point integers in units of 1/Scale; every value the   *)
(* model feeds to the feature formulas is a whole number or a number of    *)
(* tenths, for which the formulas are exact at this scale.  Probabilities  *)
(* and thresholds are IEEE doubles named by the 6-decimal number they are  *)
(* nearest to, in millionths (0.40 is 400000).                             *)
(***************************************************************************)
EXTENDS Integers, Sequences, FiniteSets, TLC

Scale == 100 * 21

\* ------------------------------------------------------------------ cells
\* A cell of a DataFrame: a Python int, a float, a str, or NaN (missing).
IntC(i) == [k |-> "int", s |-> "", n |-> i * Scale]
FltC(n) == [k |-> "float", s |-> "", n |-> n]
StrC(s) == [k |-> "str", s |-> s, n |-> 0]
NaN == [k |-> "nan", s |-> "", n |-> 0]
Tenths(t) == FltC(t * (Scale \div 10))

IsNum(c) == c.k \in {"int", "float"}
IsNaN(c) == c.k = "nan"

\* The sequence <<Op(1), ..., Op(n)>>.
RECURSIVE Tab(_, _)
Tab(Op(_), n) == IF n = 0 THEN <<>> ELSE Append(Tab(Op, n - 1), Op(n))
SeqMap(Op(_), s) == Tab(LAMBDA i : Op(s[i]), Len(s))
Range(s) == {s[i] : i \in 1..Len(s)}

\* pandas' dtype inference for a column built from Python values.
InferDtype(cells) ==
    IF \E i \in 1..Len(cells) : cells[i].k = "str" THEN "object"
    ELSE IF \E i \in 1..Len(cells) : cells[i].k \in {"float", "nan"} THEN "float64"
    ELSE "int64"

\* A column stores its values in its dtype: ints become floats in a float64 column.
Store(dtype, c) == IF dtype = "float64" /\ c.k = "int" THEN FltC(c.n) ELSE c
Column(cells) ==
    LET dt == InferDtype(cells)
    IN  [dtype |-> dt, cells |-> SeqMap(LAMBDA c : Store(dt, c), cells)]

\* ----------------------------------------------------------------- frames
\* A DataFrame: n rows, the ordered column names, and each column's values.
HasCol(df, c) == c \in DOMAIN df.col
DropCol(df, c) ==
    [n |-> df.n,
     cols |-> SelectSeq(df.cols, LAMBDA x : x # c),
     col |-> [x \in (DOMAIN df.col) \ {c} |-> df.col[x]]]
\* df[c] = column: replaces an existing column in place, appends a new one last.
SetCol(df, c, column) ==
    [n |-> df.n,
     cols |-> IF HasCol(df, c) THEN df.cols ELSE Append(df.cols, c),
     col |-> (c :> column) @@ df.col]
\* df[names]: the named columns in the given order.
\* (variant: every column kept)
ProjectAll(df, names) == df
Project(df, names) ==
    [n |-> df.n, cols |-> names, col |-> [x \in Range(names) |-> df.col[x]]]
\* pd.DataFrame([data]) for a dict: one row, the dict's keys as columns.
FrameOfRecord(keys, data) ==
    [n |-> 1, cols |-> keys, col |-> [x \in Range(keys) |-> Column(<<data[x]>>)]]
\* Row i of a frame as a dict (df.iloc[i].to_dict()).
RowRecord(df, i) == [x \in DOMAIN df.col |-> df.col[x].cells[i]]

\* ------------------------------------------------------------------ Config
COLUMNS_TO_DROP == <<"Unnamed: 0", "id">>
DEFAULT_THRESHOLD == 400000

\* -------------------------------------------------------- DataPreprocessor
BASE_FEATURES ==
    <<"Age", "Cholesterol", "Heart rate", "Diabetes", "Family History",
      "Smoking", "Obesity", "Alcohol Consumption", "Exercise Hours Per Week",
      "Diet", "Previous Heart Problems", "Medication Use", "Stress Level",
      "Sedentary Hours Per Day", "Income", "BMI", "Triglycerides",
      "Physical Activity Days Per Week", "Sleep Hours Per Day", "Blood sugar",
      "CK-MB", "Troponin", "Gender", "Systolic blood pressure",
      "Diastolic blood pressure">>

DEFAULT_FILL_VALUES ==
    [c \in {"Diabetes", "Family History", "Smoking", "Obesity",
            "Alcohol Consumption", "Previous Heart Problems", "Medication Use",
            "Stress Level", "Physical Activity Days Per Week"} |->
        CASE c = "Diabetes" -> 1 * Scale
          [] c = "Family History" -> 0
          [] c = "Smoking" -> 1 * Scale
          [] c = "Obesity" -> 0
          [] c = "Alcohol Consumption" -> 1 * Scale
          [] c = "Previous Heart Problems" -> 1 * Scale
          [] c = "Medication Use" -> 0
          [] c = "Stress Level" -> 5 * Scale
          [] c = "Physical Activity Days Per Week" -> 3 * Scale]

\* LabelEncoder().fit(['Female', 'Male']): classes_ in sorted order.
LabelClasses == <<"Female", "Male">>
\* LabelEncoder.transform: the index of each label, ValueError on an unseen one.
LabelEncoderTransform(cells) ==
    IF \A i \in 1..Len(cells) :
            cells[i].k = "str" /\ cells[i].s \in Range(LabelClasses)
    THEN [ok |-> TRUE,
          cells |-> SeqMap(LAMBDA c : IntC((CHOOSE j \in 1..Len(LabelClasses) :
                                               LabelClasses[j] = c.s) - 1),
                           cells)]
    ELSE [ok |-> FALSE, cells |-> cells]

\* Series.replace({'0.0': 'Female', '1.0': 'Male', 0.0: ..., '0': ..., 0: ...}).
\* (variant: the keys '0' and '1' left out of the dict)
GenderReplaceNoInt(c) ==
    IF IsNum(c) /\ c.n = 0 THEN StrC("Female")
    ELSE IF IsNum(c) /\ c.n = Scale THEN StrC("Male")
    ELSE IF c.k = "str" /\ c.s = "0.0" THEN StrC("Female")
    ELSE IF c.k = "str" /\ c.s = "1.0" THEN StrC("Male")
    ELSE c
GenderReplace(c) ==
    IF IsNum(c) /\ c.n = 0 THEN StrC("Female")
    ELSE IF IsNum(c) /\ c.n = Scale THEN StrC("Male")
    ELSE IF c.k = "str" /\ c.s \in {"0.0", "0"} THEN StrC("Female")
    ELSE IF c.k = "str" /\ c.s \in {"1.0", "1"} THEN StrC("Male")
    ELSE c

\* Series.map({'Female': 0, 'Male': 1}): NaN for every other value.
GenderMap(c) ==
    IF c.k = "str" /\ c.s = "Female" THEN IntC(0)
    ELSE IF c.k = "str" /\ c.s = "Male" THEN IntC(1)
    ELSE NaN

\* Step 2 of transform on the Gender column: replace, map, fillna with the
\* replaced values, and the label encoder when the result is an object column.
\* A replacement turns a numeric column into an object column.
ReplacedDtype(dtype, replaced) ==
    IF \E i \in 1..Len(replaced) : replaced[i].k = "str" THEN "object" ELSE dtype
AllMapped(mapped) == \A i \in 1..Len(mapped) : ~IsNaN(mapped[i])
\* map gives int64 when every value is mapped and float64 otherwise; fillna
\* with an object Series makes the result an object column.
GenderFillna(rdtype, replaced, mapped, allMapped) ==
    [dtype |-> IF allMapped THEN "int64"
               ELSE IF rdtype = "object" THEN "object" ELSE "float64",
     cells |-> Tab(LAMBDA i :
                     IF allMapped THEN mapped[i]
                     ELSE IF ~IsNaN(mapped[i]) THEN FltC(mapped[i].n)
                     ELSE IF rdtype = "object" THEN replaced[i]
                     ELSE Store("float64", replaced[i]), Len(mapped))]
GenderMapped(rdtype, replaced, mapped) ==
    GenderFillna(rdtype, replaced, mapped, AllMapped(mapped))
GenderReplaced(dtype, replaced) ==
    GenderMapped(ReplacedDtype(dtype, replaced), replaced, SeqMap(GenderMap, replaced))
\* if df['Gender'].dtype == 'object': LabelEncoder().fit(...).transform(...)
GenderEncoder(filled, enc) ==
    IF filled.dtype = "object"
    THEN [ok |-> enc.ok, column |-> [dtype |-> "int64", cells |-> enc.cells]]
    ELSE [ok |-> TRUE, column |-> filled]
GenderFilled(filled) == GenderEncoder(filled, LabelEncoderTransform(filled.cells))
EncodeGender(column) ==
    GenderFilled(GenderReplaced(column.dtype, SeqMap(GenderReplace, column.cells)))

\* Series.fillna(value) with a scalar float.
FillNa(column, value) ==
    [dtype |-> column.dtype,
     cells |-> SeqMap(LAMBDA c : IF IsNaN(c) THEN FltC(value) ELSE c, column.cells)]

\* float(x) for one cell of astype(float): "ok" is FALSE for a str that is no number.
StrFloats == [s \in {"0", "1", "0.0", "1.0"} |-> IF s \in {"1", "1.0"} THEN Scale ELSE 0]
CanFloat(c) == c.k # "str" \/ c.s \in DOMAIN StrFloats
ToFloat(c) ==
    IF c.k = "str" THEN FltC(StrFloats[c.s])
    ELSE IF c.k = "int" THEN FltC(c.n)
    ELSE c

\* ------------------------------------------------- float column arithmetic
FAdd(a, b) == IF IsNaN(a) \/ IsNaN(b) THEN NaN ELSE FltC(a.n + b.n)
\* (variant: the operands the other way round)
FSubReversed(a, b) == IF IsNaN(a) \/ IsNaN(b) THEN NaN ELSE FltC(b.n - a.n)
FSub(a, b) == IF IsNaN(a) \/ IsNaN(b) THEN NaN ELSE FltC(a.n - b.n)
\* (variant: the sum in place of the product)
FMulAsAdd(a, b) == IF IsNaN(a) \/ IsNaN(b) THEN NaN ELSE FltC(a.n + b.n)
FMul(a, b) == IF IsNaN(a) \/ IsNaN(b) THEN NaN ELSE FltC((a.n * b.n) \div Scale)
FDivInt(a, d) == IF IsNaN(a) THEN NaN ELSE FltC(a.n \div d)
FAbs(a) == IF IsNaN(a) THEN NaN ELSE FltC(IF a.n < 0 THEN 0 - a.n ELSE a.n)
One == FltC(Scale)
Half == FltC(Scale \div 2)
Two == FltC(2 * Scale)
Zip2(Op(_, _), a, b) == Tab(LAMBDA i : Op(a[i], b[i]), Len(a))
FloatCol(cells) == [dtype |-> "float64", cells |-> cells]
V(df, c) == df.col[c].cells

\* DataPreprocessor._create_features: the engineered columns, assigned in order.
ENGINEERED ==
    <<"Lifestyle_Risk", "Medical_Risk", "Total_Risk_Score", "Age_BMI",
      "Age_Cholesterol", "Lipid_Total", "Pulse_Pressure", "Mean_Arterial_Pressure",
      "Cardiac_Biomarkers", "Activity_Balance", "Sleep_Quality", "Age_squared",
      "BMI_squared", "Cholesterol_squared", "Smoking_Diabetes",
      "Smoking_FamilyHistory", "Obesity_Diabetes", "Stress_Sedentary">>

Lifestyle_Risk(df) ==
    Zip2(FAdd,
         Zip2(FAdd, Zip2(FAdd, V(df, "Smoking"), V(df, "Obesity")),
              V(df, "Alcohol Consumption")),
         SeqMap(LAMBDA x : FSub(One, FDivInt(x, 7)),
                V(df, "Physical Activity Days Per Week")))
Medical_Risk(df) ==
    Zip2(FAdd, Zip2(FAdd, V(df, "Diabetes"), V(df, "Family History")),
         V(df, "Previous Heart Problems"))
Mean_Arterial_Pressure(df) ==
    Zip2(FAdd, V(df, "Diastolic blood pressure"),
         SeqMap(LAMBDA x : FDivInt(x, 3),
                Zip2(FSub, V(df, "Systolic blood pressure"),
                     V(df, "Diastolic blood pressure"))))
Sleep_Quality(df) ==
    SeqMap(LAMBDA x : FSub(One, FMul(FAbs(FSub(x, Half)), Two)),
           V(df, "Sleep Hours Per Day"))

\* The value of engineered column `name`, read from the frame built so far.
Engineer(df, name) ==
    CASE name = "Lifestyle_Risk" -> Lifestyle_Risk(df)
      [] name = "Medical_Risk" -> Medical_Risk(df)
      [] name = "Total_Risk_Score" ->
            Zip2(FAdd, V(df, "Lifestyle_Risk"), V(df, "Medical_Risk"))
      [] name = "Age_BMI" -> Zip2(FMul, V(df, "Age"), V(df, "BMI"))
      [] name = "Age_Cholesterol" -> Zip2(FMul, V(df, "Age"), V(df, "Cholesterol"))
      [] name = "Lipid_Total" -> Zip2(FAdd, V(df, "Cholesterol"), V(df, "Triglycerides"))
      [] name = "Pulse_Pressure" ->
            Zip2(FSub, V(df, "Systolic blood pressure"), V(df, "Diastolic blood pressure"))
      [] name = "Mean_Arterial_Pressure" -> Mean_Arterial_Pressure(df)
      [] name = "Cardiac_Biomarkers" -> Zip2(FAdd, V(df, "CK-MB"), V(df, "Troponin"))
      [] name = "Activity_Balance" ->
            Zip2(FSub, V(df, "Exercise Hours Per Week"), V(df, "Sedentary Hours Per Day"))
      [] name = "Sleep_Quality" -> Sleep_Quality(df)
      [] name = "Age_squared" -> Zip2(FMul, V(df, "Age"), V(df, "Age"))
      [] name = "BMI_squared" -> Zip2(FMul, V(df, "BMI"), V(df, "BMI"))
      [] name = "Cholesterol_squared" ->
            Zip2(FMul, V(df, "Cholesterol"), V(df, "Cholesterol"))
      [] name = "Smoking_Diabetes" -> Zip2(FMul, V(df, "Smoking"), V(df, "Diabetes"))
      [] name = "Smoking_FamilyHistory" ->
            Zip2(FMul, V(df, "Smoking"), V(df, "Family History"))
      [] name = "Obesity_Diabetes" -> Zip2(FMul, V(df, "Obesity"), V(df, "Diabetes"))
      [] name = "Stress_Sedentary" ->
            Zip2(FMul, V(df, "Stress Level"), V(df, "Sedentary Hours Per Day"))

RECURSIVE AssignFeatures(_, _)
AssignFeatures(df, k) ==
    IF k > Len(ENGINEERED) THEN df
    ELSE AssignFeatures(SetCol(df, ENGINEERED[k],
                               FloatCol(Engineer(df, ENGINEERED[k]))), k + 1)

create_features(df) == AssignFeatures(df, 1)

\* ------------------------------------------------- DataPreprocessor.transform
\* Step 1: drop the service columns that the frame has.
RECURSIVE DropAll(_, _)
DropAll(df, k) ==
    IF k > Len(COLUMNS_TO_DROP) THEN df
    ELSE DropAll(IF HasCol(df, COLUMNS_TO_DROP[k])
                 THEN DropCol(df, COLUMNS_TO_DROP[k]) ELSE df, k + 1)

\* Step 3: fillna on every column of fill_values that the frame has.
\* (variant: a column without a fill value gets 0)
FillMissingAll(df, fill_values) ==
    [df EXCEPT !.col = [x \in DOMAIN df.col |->
        IF x \in DOMAIN fill_values THEN FillNa(df.col[x], fill_values[x])
        ELSE IF x = "Gender" THEN df.col[x]
        ELSE FillNa(df.col[x], 0)]]
FillMissing(df, fill_values) ==
    [df EXCEPT !.col = [x \in DOMAIN df.col |->
        IF x \in DOMAIN fill_values THEN FillNa(df.col[x], fill_values[x])
        ELSE df.col[x]]]

\* Step 4: every absent base column is added with the int 0.
\* (variant: an absent column added with its fill value when it has one)
RECURSIVE AddMissingFilled(_, _)
AddMissingFilled(df, k) ==
    IF k > Len(BASE_FEATURES) THEN df
    ELSE AddMissingFilled(
            IF HasCol(df, BASE_FEATURES[k]) THEN df
            ELSE SetCol(df, BASE_FEATURES[k],
                        [dtype |-> "float64",
                         cells |-> Tab(LAMBDA i :
                            IF BASE_FEATURES[k] \in DOMAIN DEFAULT_FILL_VALUES
                            THEN FltC(DEFAULT_FILL_VALUES[BASE_FEATURES[k]])
                            ELSE FltC(0), df.n)]),
            k + 1)
RECURSIVE AddMissing(_, _)
AddMissing(df, k) ==
    IF k > Len(BASE_FEATURES) THEN df
    ELSE AddMissing(IF HasCol(df, BASE_FEATURES[k]) THEN df
                    ELSE SetCol(df, BASE_FEATURES[k],
                                [dtype |-> "int64",
                                 cells |-> Tab(LAMBDA i : IntC(0), df.n)]),
                    k + 1)

\* Step 6: astype(float) on the whole frame.
CanAsFloat(df) ==
    \A x \in DOMAIN df.col : \A i \in 1..df.n : CanFloat(df.col[x].cells[i])
AsFloat(df) ==
    [df EXCEPT !.col = [x \in DOMAIN df.col |->
        FloatCol(SeqMap(ToFloat, df.col[x].cells))]]

\* transform(df): [ok, err, at, df]; err is the exception raised ("" for none) and
\* at the step that raised it.
Raised(err, at, df) == [ok |-> FALSE, err |-> err, at |-> at, df |-> df]
\* Steps 6 and 7 on the projected frame.
Coerced(df) ==
    IF ~CanAsFloat(df) THEN Raised("ValueError", "astype", df)
    ELSE [ok |-> TRUE, err |-> "", at |-> "", df |-> create_features(AsFloat(df))]
\* Steps 3, 4 and 5.
Completed(df, fill_values) ==
    Coerced(Project(AddMissing(FillMissing(df, fill_values), 1), BASE_FEATURES))
\* Step 2 once the Gender column is computed (g).
GenderAssigned(df, g, fill_values) ==
    IF ~g.ok THEN Raised("ValueError", "label_encoder", df)
    ELSE Completed(SetCol(df, "Gender", g.column), fill_values)
GenderStep(df, fill_values) ==
    IF HasCol(df, "Gender")
    THEN GenderAssigned(df, EncodeGender(df.col["Gender"]), fill_values)
    ELSE Completed(df, fill_values)
transform(df, fill_values) == GenderStep(DropAll(df, 1), fill_values)

\* preprocess_single(data): transform of the one-row frame of the dict.
preprocess_single(keys, data, fill_values) ==
    transform(FrameOfRecord(keys, data), fill_values)

\* ------------------------------------------------------------ the artifacts
\* The serialized model is opaque: a classifier that gives each feature row a
\* probability of the positive class, row by row.  Two artifacts stand for
\* it; they differ in the probabilities they give and in whether the build
\* they were trained with accepts NaN in a feature row.
Models == {"rfA", "rfB"}
AcceptsNaN(m) == m = "rfB"
Salt(m) == IF m = "rfA" THEN 0 ELSE 3

\* The doubles a model can answer: u is the double's 6-decimal value in
\* millionths, err the sign of (the double - u/10^6) and perr the sign of
\* (the double product fl(p * 10^4) - u/100).
Doubles ==
    << [u |-> 100000, err |-> 1, perr |-> 0],
       [u |-> 399960, err |-> -1, perr |-> -1],
       [u |-> 399999, err |-> -1, perr |-> -1],
       [u |-> 400000, err |-> 1, perr |-> 0],
       [u |-> 6250, err |-> 1, perr |-> 0],
       [u |-> 281250, err |-> 0, perr |-> 0],
       [u |-> 900000, err |-> 1, perr |-> 0] >>

SAVED_THRESHOLD == 350000
\* A fill-value map saved at training time: the same nine columns, other modes.
SAVED_FILL_VALUES ==
    [c \in DOMAIN DEFAULT_FILL_VALUES |->
        IF c = "Smoking" THEN 0
        ELSE IF c = "Stress Level" THEN 4 * Scale
        ELSE DEFAULT_FILL_VALUES[c]]

RECURSIVE RowSum(_, _, _)
RowSum(df, i, k) ==
    IF k = 0 THEN 0
    ELSE RowSum(df, i, k - 1) + df.col[df.cols[k]].cells[i].n \div 10

RowHasNaN(df, i) == \E x \in DOMAIN df.col : IsNaN(df.col[x].cells[i])

\* model.predict_proba(X)[i][1]: the positive-class probability of row i.
predict_proba(m, X, i) ==
    Doubles[((RowSum(X, i, Len(X.cols)) + Salt(m)) % Len(Doubles)) + 1]
\* predict_proba raises ValueError on NaN input when the build does not accept it.
ProbaRaises(m, X) == ~AcceptsNaN(m) /\ \E i \in 1..X.n : RowHasNaN(X, i)

\* Python's round(p, 4): the exact value of the double, correctly rounded,
\* an exact tie to even; in ten-thousandths.
PyRound4(p) ==
    LET base == p.u \div 100
        rem == p.u % 100
    IN  IF rem > 50 \/ (rem = 50 /\ (p.err > 0 \/ (p.err = 0 /\ base % 2 = 1)))
        THEN base + 1 ELSE base

\* numpy's ndarray.round(4): rint(p * 10^4) / 10^4, the tie decided on the
\* double product; in ten-thousandths.
NpRound4(p) ==
    LET base == p.u \div 100
        rem == p.u % 100
    IN  IF rem > 50 \/ (rem = 50 /\ (p.perr > 0 \/ (p.perr = 0 /\ base % 2 = 1)))
        THEN base + 1 ELSE base

\* probability >= self.threshold on doubles.
\* (variant: a strict comparison)
AtLeastStrict(p, t) == p.u > t
AtLeast(p, t) == p.u >= t

\* ----------------------------------------------------------- ModelPredictor
\* The predictor's fields as a record; "None" is Python's None.
Predictor(m, t, l, n) == [model |-> m, threshold |-> t, is_loaded |-> l, loads |-> n]

\* load_model(): [ok, err, p]; p.loads counts the joblib.load(model_path) calls
\* that returned.  joblib.load of an unreadable file raises before self.model
\* is assigned; "UnpicklingError" stands for whatever it raises, which is no
\* FileNotFoundError.
\* (variant: a missing model file passed over in silence)
load_model_silent(p, mfile, tfile) ==
    IF mfile = "absent" THEN [ok |-> TRUE, err |-> "", p |-> p]
    ELSE IF mfile = "corrupt" THEN [ok |-> FALSE, err |-> "UnpicklingError", p |-> p]
    ELSE [ok |-> TRUE, err |-> "",
          p |-> Predictor(mfile,
                          IF tfile # {} THEN CHOOSE t \in tfile : TRUE
                          ELSE DEFAULT_THRESHOLD,
                          TRUE, p.loads + 1)]
\* (variant: another default threshold)
load_model_half(p, mfile, tfile) ==
    IF mfile = "absent" THEN [ok |-> FALSE, err |-> "FileNotFoundError", p |-> p]
    ELSE IF mfile = "corrupt" THEN [ok |-> FALSE, err |-> "UnpicklingError", p |-> p]
    ELSE [ok |-> TRUE, err |-> "",
          p |-> Predictor(mfile,
                          IF tfile # {} THEN CHOOSE t \in tfile : TRUE
                          ELSE DEFAULT_THRESHOLD + 100000,
                          TRUE, p.loads + 1)]
load_model(p, mfile, tfile) ==
    IF mfile = "absent" THEN [ok |-> FALSE, err |-> "FileNotFoundError", p |-> p]
    ELSE IF mfile = "corrupt" THEN [ok |-> FALSE, err |-> "UnpicklingError", p |-> p]
    ELSE [ok |-> TRUE, err |-> "",
          p |-> Predictor(mfile,
                          IF tfile # {} THEN CHOOSE t \in tfile : TRUE
                          ELSE DEFAULT_THRESHOLD,
                          TRUE, p.loads + 1)]

\* _ensure_loaded()
\* (variant: a load on every call)
ensure_reloaded(p, mfile, tfile) == load_model(p, mfile, tfile)
ensure_loaded(p, mfile, tfile) ==
    IF ~p.is_loaded \/ p.model = "None" THEN load_model(p, mfile, tfile)
    ELSE [ok |-> TRUE, err |-> "", p |-> p]

\* The decision of one probability.
\* (variant: the decision taken on the probability rounded to 4 decimals)
DecideRounded(p, threshold) == IF PyRound4(p) * 100 >= threshold THEN 1 ELSE 0
Decide(p, threshold) == IF AtLeast(p, threshold) THEN 1 ELSE 0
RiskLevel(prediction) == IF prediction = 1 THEN "HIGH" ELSE "LOW"

\* predict_single after _ensure_loaded: [out, at, res, proba]; out is "ok" or
\* the exception raised, at the step that raised it, res what is returned and
\* proba the model's probabilities, one per row.
Failed(err, at) == [out |-> err, at |-> at, res |-> <<>>, proba |-> <<>>]
SingleResult(p, probability, prediction) ==
    [prediction |-> prediction,
     probability |-> PyRound4(probability),
     risk_level |-> RiskLevel(prediction),
     threshold_used |-> p.threshold]
\* The body of predict_single once the features (t) are computed.
SinglePredicted(p, t) ==
    IF ~t.ok THEN Failed(t.err, t.at)
    ELSE IF ProbaRaises(p.model, t.df) THEN Failed("ValueError", "predict_proba")
    ELSE [out |-> "ok", at |-> "",
          res |-> << SingleResult(p, predict_proba(p.model, t.df, 1),
                                  Decide(predict_proba(p.model, t.df, 1),
                                         p.threshold)) >>,
          proba |-> << predict_proba(p.model, t.df, 1) >>]
predict_single(p, fill_values, keys, data) ==
    SinglePredicted(p, preprocess_single(keys, data, fill_values))

\* ids = df['id'].values if 'id' in df.columns else range(len(df))
\* (variant: the position whatever the columns)
IdsPositional(df) == Tab(LAMBDA i : IntC(i - 1), df.n)
Ids(df) ==
    IF HasCol(df, "id") THEN df.col["id"].cells
    ELSE Tab(LAMBDA i : IntC(i - 1), df.n)

\* predict after _ensure_loaded: [out, at, res, proba], one result row per
\* input row.
BatchRow(p, id, probability) ==
    [id |-> id,
     prediction |-> Decide(probability, p.threshold),
     probability |-> NpRound4(probability)]
\* The body of predict once the features (t) and the ids are computed.
BatchPredicted(p, t, ids) ==
    IF ~t.ok THEN Failed(t.err, t.at)
    ELSE IF ProbaRaises(p.model, t.df) THEN Failed("ValueError", "predict_proba")
    ELSE [out |-> "ok", at |-> "",
          res |-> Tab(LAMBDA i : BatchRow(p, ids[i], predict_proba(p.model, t.df, i)),
                      t.df.n),
          proba |-> Tab(LAMBDA i : predict_proba(p.model, t.df, i), t.df.n)]
predict(p, fill_values, df) == BatchPredicted(p, transform(df, fill_values), Ids(df))

\* get_model_info after _ensure_loaded.
get_model_info(p) ==
    [out |-> "ok", at |-> "",
     res |-> << [model_type |-> p.model, threshold |-> p.threshold,
                 is_loaded |-> p.is_loaded] >>,
     proba |-> <<>>]

\* DataPreprocessor.__init__: the saved fill values when the file is there and
\* reads, the defaults otherwise.
\* (variant: an unreadable file leaves no fill values)
init_fill_values_uncaught(ffile) ==
    IF ffile = "saved" THEN SAVED_FILL_VALUES
    ELSE IF ffile = "corrupt" THEN <<>>
    ELSE DEFAULT_FILL_VALUES
init_fill_values(ffile) ==
    IF ffile = "saved" THEN SAVED_FILL_VALUES ELSE DEFAULT_FILL_VALUES

\* ---------------------------------------------------------------- the inputs
MaxRows == 2

\* The order in which an input frame lists its columns.
InputOrder == <<"Unnamed: 0", "id">> \o BASE_FEATURES \o <<"note">>

\* A complete patient record: every base column, numeric except Gender.
FullRecord ==
    [c \in Range(BASE_FEATURES) |->
        CASE c \in {"Diabetes", "Smoking", "Alcohol Consumption", "Diet"} -> IntC(1)
          [] c \in {"Family History", "Obesity", "Previous Heart Problems",
                    "Medication Use"} -> IntC(0)
          [] c = "Stress Level" -> IntC(5)
          [] c = "Physical Activity Days Per Week" -> IntC(3)
          [] c = "Gender" -> StrC("Male")
          [] c = "Systolic blood pressure" -> Tenths(8)
          [] OTHER -> Tenths(5)]

\* The representations of the sex field that the encoder knows, and others.
MaleCells == {StrC("Male"), IntC(1), FltC(Scale), StrC("1.0"), StrC("1")}
FemaleCells == {StrC("Female"), IntC(0), FltC(0), StrC("0"), StrC("0.0")}
OtherGenderCells == {StrC("Other"), IntC(2), NaN}
GenderCells == MaleCells \cup FemaleCells \cup OtherGenderCells

Absent == [k |-> "absent", s |-> "", n |-> 0]
AxisCols == {"Gender", "Smoking", "Age"}
RestCols == Range(BASE_FEATURES) \ AxisCols

\* A frame of rows (dicts over the same keys), its columns in InputOrder.
FrameOfRows(keyset, rows) ==
    [n |-> Len(rows),
     cols |-> SelectSeq(InputOrder, LAMBDA c : c \in keyset),
     col |-> [c \in keyset |-> Column(SeqMap(LAMBDA r : r[c], rows))]]

\* One-record inputs: the full record or none of its other columns, with the
\* sex field, a column that has a fill value and one that has none each
\* present, missing (NaN) or absent, and with or without non-feature columns.
SingleChoices ==
    [rest : BOOLEAN,
     gender : GenderCells \cup {Absent},
     smoking : {IntC(1), IntC(0), NaN, Absent},
     age : {Tenths(5), NaN, Absent},
     extras : {0, 1, 2}]
SingleRecord(ch) ==
    LET axis == [c \in AxisCols |->
                    CASE c = "Gender" -> ch.gender
                      [] c = "Smoking" -> ch.smoking
                      [] c = "Age" -> ch.age]
        keyset == {c \in AxisCols : axis[c] # Absent}
                    \cup (IF ch.rest THEN RestCols ELSE {})
                    \cup (IF ch.extras >= 1 THEN {"id"} ELSE {})
                    \cup (IF ch.extras = 2 THEN {"Unnamed: 0", "note"} ELSE {})
    IN  [c \in keyset |->
            CASE c \in AxisCols -> axis[c]
              [] c = "id" -> IntC(7)
              [] c = "Unnamed: 0" -> IntC(0)
              [] c = "note" -> StrC("x")
              [] OTHER -> FullRecord[c]]
SingleFrames ==
    {FrameOfRows(DOMAIN SingleRecord(ch), <<SingleRecord(ch)>>) : ch \in SingleChoices}

\* Tables of 2..MaxRows rows: every mix of the sex field's values without an
\* id column, and the mixes of a few of them with one.
IdGenderCells == {StrC("Male"), IntC(0), StrC("Other")}
GenderTable(keyset, g, n) ==
    FrameOfRows(keyset, [i \in 1..n |-> [c \in {"Gender", "id"} |->
                            IF c = "Gender" THEN g[i] ELSE IntC(6 + i)]])
BatchFrames ==
    UNION {{GenderTable({"Gender"}, g, n) : g \in [1..n -> GenderCells]}
             \cup {GenderTable({"Gender", "id"}, g, n) : g \in [1..n -> IdGenderCells]} :
           n \in 2..MaxRows}

\* Records of the four binary risk factors alone, in every combination.
BinaryCols == {"Smoking", "Diabetes", "Obesity", "Family History"}
BinaryFrames ==
    {FrameOfRows(BinaryCols, << [c \in BinaryCols |-> IntC(b[c])] >>) :
        b \in [BinaryCols -> {0, 1}]}

\* Tables of a column that has a fill value and one that has none, every
\* value present or missing.
ImputeTable(sm, ag, n) ==
    FrameOfRows({"Smoking", "Age"},
                [i \in 1..n |-> [c \in {"Smoking", "Age"} |->
                    IF c = "Smoking" THEN sm[i] ELSE ag[i]]])
ImputeTables ==
    UNION {{ImputeTable(sm, ag, n) : sm \in [1..n -> {IntC(1), IntC(0), NaN}],
                                     ag \in [1..n -> {Tenths(5), NaN}]} :
           n \in 2..MaxRows}

\* Records of the two blood pressures alone, each a float, an int or missing.
PressureCols == {"Systolic blood pressure", "Diastolic blood pressure"}
PressureCells == {Tenths(8), Tenths(5), Tenths(2), IntC(1), NaN}
PressureFrames ==
    {FrameOfRows(PressureCols, << [c \in PressureCols |-> b[c]] >>) :
        b \in [PressureCols -> PressureCells]}

Tables ==
    SingleFrames \cup BatchFrames \cup BinaryFrames \cup ImputeTables
      \cup PressureFrames

\* ------------------------------------------------------------------- state
VARIABLES
    modelFile,      \* the model artifact: "absent", "corrupt" or the model it holds
    thresholdFile,  \* the threshold artifact: {} (absent) or {the threshold}
    fillFile,       \* the fill-value artifact: "absent", "corrupt" or "saved"
    phase,          \* "boot" before startup_event, then "serving" or "crashed"
    model,          \* ModelPredictor.model ("None" or the loaded model)
    threshold,      \* ModelPredictor.threshold
    is_loaded,      \* ModelPredictor._is_loaded
    fill_values,    \* ModelPredictor.preprocessor.fill_values
    loads,          \* history: how many times joblib.load(model_path) ran
    loadSaw,        \* history: <<thresholdFile>> as the last load found it
    inp,            \* the frame of the last call
    last,           \* the last call: what it was and what it returned
    pc              \* where each thread of a threaded caller is in its call

vars == <<modelFile, thresholdFile, fillFile, phase, model, threshold, is_loaded,
          fill_values, loads, loadSaw, inp, last, pc>>

\* The threads of a threaded caller, all outside a call.
NThreads == 2
Threads == 1..NThreads
Idle == [t \in Threads |-> "idle"]

NoFrame == [n |-> 0, cols |-> <<>>, col |-> <<>>]
NoCall == [op |-> "", row |-> 0, out |-> "", at |-> "", res |-> <<>>, proba |-> <<>>,
           X |-> NoFrame, mfile |-> "", wasLoaded |-> FALSE, didLoad |-> FALSE,
           http |-> 0]

\* The status the endpoints answer with: 200 for a result, 503 for a
\* FileNotFoundError and 500 for every other exception.
HttpStatus(out) ==
    IF out = "ok" THEN 200 ELSE IF out = "FileNotFoundError" THEN 503 ELSE 500

Pred == Predictor(model, threshold, is_loaded, loads)
SetPred(p) ==
    /\ model' = p.model
    /\ threshold' = p.threshold
    /\ is_loaded' = p.is_loaded
    /\ loads' = p.loads
    /\ loadSaw' = IF p.loads # loads THEN <<thresholdFile>> ELSE loadSaw

\* The record of a call that ran _ensure_loaded (e) and then returned r:
\* mfile is the model artifact as the call found it, wasLoaded the value of
\* _is_loaded before the call, didLoad whether the call read the artifact and
\* http the status its endpoint answers with.
Called(op, row, e, r) ==
    [op |-> op, row |-> row, out |-> r.out, at |-> r.at, res |-> r.res,
     proba |-> r.proba, X |-> NoFrame, mfile |-> modelFile,
     wasLoaded |-> is_loaded, didLoad |-> e.p.loads # loads,
     http |-> IF op = "startup_event" THEN 0 ELSE HttpStatus(r.out)]

\* ModelPredictor.__init__: the fields of a new predictor.
Construct ==
    /\ model = "None"
    /\ threshold = DEFAULT_THRESHOLD
    /\ is_loaded = FALSE
    /\ fill_values = init_fill_values(fillFile)
    /\ loads = 0
    /\ loadSaw = <<>>

Artifacts ==
    /\ modelFile \in {"absent", "corrupt"} \cup Models
    /\ thresholdFile \in {{}, {SAVED_THRESHOLD}}
    /\ fillFile \in {"absent", "corrupt", "saved"}

\* ----------------------------------------------------------------- actions
\* startup_event: predictor.load_model(), FileNotFoundError caught and logged;
\* any other exception leaves the handler and the application does not start.
startup_event ==
    /\ phase = "boot"
    /\ LET e == load_model(Pred, modelFile, thresholdFile)
       IN  /\ SetPred(e.p)
           /\ last' = Called("startup_event", 0, e,
                             Failed(e.err, "load_model"))
           /\ phase' = IF e.ok \/ e.err = "FileNotFoundError" THEN "serving"
                       ELSE "crashed"
    /\ UNCHANGED <<modelFile, thresholdFile, fillFile, fill_values, inp, pc>>

\* predictor.predict_single(T.iloc[i].to_dict())
PredictSingle(T, i) ==
    /\ phase = "serving"
    /\ LET e == ensure_loaded(Pred, modelFile, thresholdFile)
           r == IF ~e.ok THEN Failed(e.err, "load_model")
                ELSE predict_single(e.p, fill_values, T.cols, RowRecord(T, i))
       IN  /\ SetPred(e.p)
           /\ last' = Called("predict_single", i, e, r)
    /\ inp' = T
    /\ UNCHANGED <<modelFile, thresholdFile, fillFile, phase, fill_values, pc>>

\* predictor.predict(T)
Predict(T) ==
    /\ phase = "serving"
    /\ LET e == ensure_loaded(Pred, modelFile, thresholdFile)
           r == IF ~e.ok THEN Failed(e.err, "load_model")
                ELSE predict(e.p, fill_values, T)
       IN  /\ SetPred(e.p)
           /\ last' = Called("predict", 0, e, r)
    /\ inp' = T
    /\ UNCHANGED <<modelFile, thresholdFile, fillFile, phase, fill_values, pc>>

\* predictor.get_model_info()
GetModelInfo ==
    /\ phase = "serving"
    /\ LET e == ensure_loaded(Pred, modelFile, thresholdFile)
           r == IF ~e.ok THEN Failed(e.err, "load_model") ELSE get_model_info(e.p)
       IN  /\ SetPred(e.p)
           /\ last' = Called("get_model_info", 0, e, r)
    /\ UNCHANGED <<modelFile, thresholdFile, fillFile, phase, fill_values, inp, pc>>

\* health_check: reads _is_loaded and threshold, no _ensure_loaded.
HealthCheck ==
    /\ phase = "serving"
    /\ last' = [NoCall EXCEPT !.op = "health_check",
                              !.res = << [model_loaded |-> is_loaded,
                                          threshold |-> threshold] >>,
                              !.mfile = modelFile,
                              !.wasLoaded = is_loaded,
                              !.out = "ok",
                              !.http = 200]
    /\ UNCHANGED <<modelFile, thresholdFile, fillFile, phase, model, threshold,
                   is_loaded, fill_values, loads, loadSaw, inp, pc>>

\* The record of a transform call that returned t.
Transformed(t) ==
    [op |-> "transform", row |-> 0,
     out |-> IF t.ok THEN "ok" ELSE t.err, at |-> t.at, res |-> <<>>,
     proba |-> <<>>, X |-> IF t.ok THEN t.df ELSE NoFrame,
     mfile |-> modelFile, wasLoaded |-> is_loaded, didLoad |-> FALSE, http |-> 0]

\* predictor.preprocessor.transform(T)
\* (variant: the call moves the Smoking fill value to the other mode)
TransformLearning(T) ==
    /\ phase = "serving"
    /\ last' = Transformed(transform(T, fill_values))
    /\ inp' = T
    /\ fill_values' = [fill_values EXCEPT !["Smoking"] = Scale - @]
    /\ UNCHANGED <<modelFile, thresholdFile, fillFile, phase, model, threshold,
                   is_loaded, loads, loadSaw, pc>>
Transform(T) ==
    /\ phase = "serving"
    /\ last' = Transformed(transform(T, fill_values))
    /\ inp' = T
    /\ UNCHANGED <<modelFile, thresholdFile, fillFile, phase, model, threshold,
                   is_loaded, fill_values, loads, loadSaw, pc>>

\* An operator puts a missing artifact in place.
InstallModel ==
    /\ modelFile \in {"absent", "corrupt"}
    /\ modelFile' \in Models
    /\ UNCHANGED <<thresholdFile, fillFile, phase, model, threshold, is_loaded,
                   fill_values, loads, loadSaw, inp, last, pc>>
\* An unreadable model artifact is put in place (a truncated copy).
CorruptModel ==
    /\ modelFile = "absent"
    /\ modelFile' = "corrupt"
    /\ UNCHANGED <<thresholdFile, fillFile, phase, model, threshold, is_loaded,
                   fill_values, loads, loadSaw, inp, last, pc>>
\* The model artifact is taken away (a redeployment, a cleaned volume).
RemoveModel ==
    /\ modelFile # "absent"
    /\ modelFile' = "absent"
    /\ UNCHANGED <<thresholdFile, fillFile, phase, model, threshold, is_loaded,
                   fill_values, loads, loadSaw, inp, last, pc>>
InstallThreshold ==
    /\ thresholdFile = {}
    /\ thresholdFile' = {SAVED_THRESHOLD}
    /\ UNCHANGED <<modelFile, fillFile, phase, model, threshold, is_loaded,
                   fill_values, loads, loadSaw, inp, last, pc>>

\* ---------------------------------------------------------- specifications
\* The service: startup, then requests handled one at a time on a few inputs.
ServiceChoices ==
    [rest : {TRUE}, gender : {StrC("Male"), StrC("Other")}, smoking : {NaN},
     age : {Tenths(5)}, extras : {0}]
ServiceInputs ==
    {FrameOfRows(DOMAIN SingleRecord(ch), <<SingleRecord(ch)>>) : ch \in ServiceChoices}
      \cup {FrameOfRows({"Gender", "id"},
                        <<[id |-> IntC(7), Gender |-> StrC("Male")],
                          [id |-> IntC(8), Gender |-> IntC(0)]>>)}

Init ==
    /\ Artifacts
    /\ phase = "boot"
    /\ Construct
    /\ inp = NoFrame
    /\ last = NoCall
    /\ pc = Idle

Next ==
    \/ startup_event
    \/ InstallModel
    \/ CorruptModel
    \/ RemoveModel
    \/ HealthCheck
    \/ InstallThreshold
    \/ GetModelInfo
    \/ \E T \in ServiceInputs : Predict(T)
    \/ \E T \in ServiceInputs : \E i \in 1..T.n : PredictSingle(T, i)
    \/ \E T \in ServiceInputs : Transform(T)

Spec == Init /\ [][Next]_vars

\* The pipeline as a library, on every input of Tables: a predictor is built
\* and one call is made, on the frame or on one of its rows.
InitData ==
    /\ modelFile \in Models
    /\ \E saved \in BOOLEAN :
          /\ thresholdFile = IF saved THEN {SAVED_THRESHOLD} ELSE {}
          /\ fillFile = IF saved THEN "saved" ELSE "absent"
    /\ phase = "serving"
    /\ Construct
    /\ inp \in Tables
    /\ last = NoCall
    /\ pc = Idle

PredictData == last = NoCall /\ Predict(inp)
PredictSingleData == last = NoCall /\ \E i \in 1..inp.n : PredictSingle(inp, i)
TransformData == last = NoCall /\ Transform(inp)

NextData == PredictData \/ PredictSingleData \/ TransformData

SpecData == InitData /\ [][NextData]_vars

\* ------------------------------------------------------- threaded callers
\* The predictor shared by the threads of a threaded caller: each thread calls
\* predict_single and runs _ensure_loaded and load_model one statement at a
\* time, interleaved with the others.
ConcInput == FrameOfRows(DOMAIN FullRecord, <<FullRecord>>)

Goto(t, label) == pc' = [pc EXCEPT ![t] = label]

\* The record of thread t's call that returned r.
Returned(t, r) ==
    [op |-> "predict_single", row |-> t, out |-> r.out, at |-> r.at, res |-> r.res,
     proba |-> r.proba, X |-> NoFrame, mfile |-> modelFile,
     wasLoaded |-> pc[t] = "compute", didLoad |-> pc[t] = "loaded_compute",
     http |-> HttpStatus(r.out)]

\* predict_single is entered.
Call(t) ==
    /\ pc[t] = "idle"
    /\ Goto(t, "ensure_loaded")
    /\ UNCHANGED <<modelFile, thresholdFile, fillFile, phase, model, threshold,
                   is_loaded, fill_values, loads, loadSaw, inp, last>>

\* _ensure_loaded: if not self._is_loaded or self.model is None
CheckLoaded(t) ==
    /\ pc[t] = "ensure_loaded"
    /\ Goto(t, IF ~is_loaded \/ model = "None" THEN "load_model" ELSE "compute")
    /\ UNCHANGED <<modelFile, thresholdFile, fillFile, phase, model, threshold,
                   is_loaded, fill_values, loads, loadSaw, inp, last>>

\* load_model: if not model_path.exists(): raise FileNotFoundError
CheckExists(t) ==
    /\ pc[t] = "load_model"
    /\ IF modelFile = "absent"
       THEN /\ Goto(t, "idle")
            /\ last' = Returned(t, Failed("FileNotFoundError", "load_model"))
       ELSE /\ Goto(t, "joblib_model")
            /\ UNCHANGED last
    /\ UNCHANGED <<modelFile, thresholdFile, fillFile, phase, model, threshold,
                   is_loaded, fill_values, loads, loadSaw, inp>>

\* load_model: self.model = joblib.load(model_path)
\* (variant: _is_loaded set as soon as the model is assigned)
LoadModelFileEager(t) ==
    /\ pc[t] = "joblib_model"
    /\ IF modelFile = "corrupt"
       THEN /\ Goto(t, "idle")
            /\ last' = Returned(t, Failed("UnpicklingError", "load_model"))
            /\ UNCHANGED <<model, loads, is_loaded>>
       ELSE /\ model' = modelFile
            /\ loads' = loads + 1
            /\ is_loaded' = TRUE
            /\ Goto(t, "joblib_threshold")
            /\ UNCHANGED last
    /\ UNCHANGED <<modelFile, thresholdFile, fillFile, phase, threshold,
                   fill_values, loadSaw, inp>>
LoadModelFile(t) ==
    /\ pc[t] = "joblib_model"
    /\ IF modelFile = "corrupt"
       THEN /\ Goto(t, "idle")
            /\ last' = Returned(t, Failed("UnpicklingError", "load_model"))
            /\ UNCHANGED <<model, loads>>
       ELSE /\ model' = modelFile
            /\ loads' = loads + 1
            /\ Goto(t, "joblib_threshold")
            /\ UNCHANGED last
    /\ UNCHANGED <<modelFile, thresholdFile, fillFile, phase, threshold, is_loaded,
                   fill_values, loadSaw, inp>>

\* load_model: the threshold from its file, or Config.DEFAULT_THRESHOLD
LoadThresholdFile(t) ==
    /\ pc[t] = "joblib_threshold"
    /\ threshold' = IF thresholdFile # {} THEN CHOOSE x \in thresholdFile : TRUE
                    ELSE DEFAULT_THRESHOLD
    /\ loadSaw' = <<thresholdFile>>
    /\ Goto(t, "set_loaded")
    /\ UNCHANGED <<modelFile, thresholdFile, fillFile, phase, model, is_loaded,
                   fill_values, loads, inp, last>>

\* load_model: self._is_loaded = True
SetLoaded(t) ==
    /\ pc[t] = "set_loaded"
    /\ is_loaded' = TRUE
    /\ Goto(t, "loaded_compute")
    /\ UNCHANGED <<modelFile, thresholdFile, fillFile, phase, model, threshold,
                   fill_values, loads, loadSaw, inp, last>>

\* The rest of predict_single: features, probability, result.
Compute(t) ==
    /\ pc[t] \in {"compute", "loaded_compute"}
    /\ last' = Returned(t, predict_single(Pred, fill_values, inp.cols, RowRecord(inp, 1)))
    /\ Goto(t, "idle")
    /\ UNCHANGED <<modelFile, thresholdFile, fillFile, phase, model, threshold,
                   is_loaded, fill_values, loads, loadSaw, inp>>

InitConc ==
    /\ Artifacts
    /\ phase = "serving"
    /\ Construct
    /\ inp = ConcInput
    /\ last = NoCall
    /\ pc = Idle

NextConc ==
    \E t \in Threads :
        \/ Call(t)
        \/ CheckLoaded(t)
        \/ CheckExists(t)
        \/ LoadModelFile(t)
        \/ LoadThresholdFile(t)
        \/ SetLoaded(t)
        \/ Compute(t)

SpecConc == InitConc /\ [][NextConc]_vars

\* ================================================================ properties
\* predict_single on row i of the last frame, by the predictor as it is.
RowAlone(i) ==
    SinglePredicted(Pred, preprocess_single(inp.cols, RowRecord(inp, i), fill_values))
SameRow(batch, i, single) ==
    /\ (batch.out = "ok") <=> (single.out = "ok")
    /\ batch.out = "ok" /\ single.out = "ok" =>
          /\ batch.res[i].prediction = single.res[1].prediction
          /\ batch.res[i].probability = single.res[1].probability

\* C1: row independence: predict(T) gives every row i the decision and the
\* 4-decimal probability that predict_single gives that row alone, and
\* succeeds on row i exactly when predict_single does.
RowIndependence ==
    last.op = "predict" => \A i \in 1..inp.n : SameRow(last, i, RowAlone(i))

\* C2: in predict_single and predict the decision of a row is 1 exactly when
\* the model's probability is at least the threshold (equal gives 1, below
\* gives 0), and predict_single's risk_level is "HIGH" exactly when the
\* decision is 1 and "LOW" otherwise.
ThresholdBoundary ==
    last.op \in {"predict_single", "predict"} /\ last.out = "ok" =>
        \A i \in 1..Len(last.res) :
            /\ last.proba[i].u >= threshold => last.res[i].prediction = 1
            /\ last.proba[i].u < threshold => last.res[i].prediction = 0
            /\ last.op = "predict_single" =>
                  last.res[i].risk_level =
                      IF last.res[i].prediction = 1 THEN "HIGH" ELSE "LOW"
OnTheBoundary ==
    /\ last.op = "predict_single"
    /\ last.out = "ok"
    /\ last.proba[1].u = threshold
    /\ last.res[1].prediction = 1
    /\ last.res[1].risk_level = "HIGH"

\* C3: whenever transform does not raise, its output has exactly 42 columns:
\* the 25 base features in BASE_FEATURES order, then exactly 17 engineered ones.
FortyTwoColumns ==
    last.op = "transform" /\ last.out = "ok" =>
        /\ Len(last.X.cols) = 42
        /\ SubSeq(last.X.cols, 1, 25) = BASE_FEATURES
        /\ Len(last.X.cols) - Len(BASE_FEATURES) = 17

\* C4: on a record whose present base columns hold numbers, whatever subset
\* of the 25 base columns is absent, transform and predict_single do not
\* raise, and every absent base column is in the normalized output with the
\* value 0, also when it has a fill value.
NumericRecord ==
    /\ inp.n = 1
    /\ \A c \in DOMAIN inp.col \cap Range(BASE_FEATURES) : IsNum(inp.col[c].cells[1])
CompletenessTolerance ==
    NumericRecord =>
        /\ last.op \in {"transform", "predict_single"} => last.out = "ok"
        /\ last.op = "transform" =>
              /\ Range(BASE_FEATURES) \subseteq DOMAIN last.X.col
              /\ \A c \in Range(BASE_FEATURES) \ DOMAIN inp.col :
                    \A i \in 1..inp.n : last.X.col[c].cells[i] = FltC(0)
EmptyRecordZeroFilled ==
    /\ last.op = "transform"
    /\ inp.cols = <<>>
    /\ last.out = "ok"
    /\ last.X.col["Smoking"].cells = <<FltC(0)>>
    /\ last.X.col["Age"].cells = <<FltC(0)>>

\* C5: transform encodes the Gender values "Male", 1, 1.0, "1.0", "1" as 1
\* and "Female", 0, 0.0, "0", "0.0" as 0, in a single record and in every row
\* of a table whatever mix of these values its rows hold.
RecognisedGender ==
    /\ HasCol(inp, "Gender")
    /\ \A i \in 1..inp.n : inp.col["Gender"].cells[i] \in MaleCells \cup FemaleCells
EncodingSymmetry ==
    last.op = "transform" /\ RecognisedGender =>
        /\ last.out = "ok"
        /\ \A i \in 1..inp.n :
              last.X.col["Gender"].cells[i] =
                  IF inp.col["Gender"].cells[i] \in MaleCells THEN FltC(Scale)
                  ELSE FltC(0)
MixedTableEncoded ==
    /\ last.op = "transform"
    /\ last.out = "ok"
    /\ inp.n = 2
    /\ inp.col["Gender"].cells = <<StrC("1"), IntC(0)>>
    /\ last.X.col["Gender"].cells = <<FltC(Scale), FltC(0)>>

\* C6: a call of predict_single, predict or get_model_info on a pipeline that
\* is not loaded fails with FileNotFoundError while the model artifact is
\* absent, returns nothing and leaves model = None and _is_loaded false; with
\* a readable artifact present it loads the artifact and does not fail at the load
\* (get_model_info returns, a prediction returns unless its own input is
\* rejected further on).
ModelUnavailable ==
    last.op \in {"predict_single", "predict", "get_model_info"} /\ ~last.wasLoaded =>
        IF last.mfile = "absent"
        THEN /\ last.out = "FileNotFoundError"
             /\ last.res = <<>>
             /\ ~last.didLoad
             /\ model = "None"
             /\ ~is_loaded
        ELSE last.mfile \in Models =>
             /\ last.didLoad
             /\ is_loaded
             /\ model = last.mfile
             /\ last.out # "FileNotFoundError"
             /\ last.out = "ok" \/ last.at \in {"label_encoder", "astype", "predict_proba"}
             /\ last.op = "get_model_info" => last.out = "ok"
LazyLoadAfterInstall ==
    /\ last.op = "predict_single"
    /\ last.didLoad
    /\ last.out = "ok"
    /\ loads = 1
    /\ loadSaw # <<>>

\* C7: once the pipeline is loaded, no call loads the artifacts again, and
\* model, threshold, fill_values and _is_loaded stay as they are.
ReadOnlyAfterLoad ==
    [][is_loaded =>
          /\ model' = model
          /\ threshold' = threshold
          /\ fill_values' = fill_values
          /\ is_loaded'
          /\ loads' = loads]_vars
ServedFromLoadedState ==
    /\ last.op = "predict"
    /\ last.wasLoaded
    /\ last.out = "ok"
    /\ last.mfile = "absent"
    /\ loads = 1

\* C8: calls that run concurrently on a pipeline that is not loaded read the
\* model artifact at most once.
LoadOnce == loads <= 1

\* C9: a load that finds the model artifact but no threshold artifact
\* succeeds, sets threshold to the default 0.40 and marks the pipeline
\* loaded; every prediction from then on decides against 0.40 and
\* predict_single reports threshold_used = 0.40.
DefaultThresholdUsed ==
    loadSaw = << {} >> =>
        /\ is_loaded
        /\ model # "None"
        /\ threshold = DEFAULT_THRESHOLD
        /\ last.op \in {"predict_single", "predict"} /\ last.out = "ok" =>
              \A i \in 1..Len(last.res) :
                  /\ last.res[i].prediction =
                        IF last.proba[i].u >= DEFAULT_THRESHOLD THEN 1 ELSE 0
                  /\ last.op = "predict_single" =>
                        last.res[i].threshold_used = DEFAULT_THRESHOLD
DefaultKeptAfterInstall ==
    /\ loadSaw = << {} >>
    /\ thresholdFile # {}
    /\ last.op = "predict_single"
    /\ last.out = "ok"
    /\ ~last.didLoad
    /\ last.res[1].threshold_used = DEFAULT_THRESHOLD

\* C10: the preprocessor is always constructed: with the fill-value artifact
\* missing or unreadable fill_values is the default map over exactly the nine
\* known columns, and with a readable artifact it is the persisted map.
FillValueStore ==
    /\ fillFile \in {"absent", "corrupt"} =>
          /\ DOMAIN fill_values =
                {"Diabetes", "Family History", "Smoking", "Obesity",
                 "Alcohol Consumption", "Previous Heart Problems",
                 "Medication Use", "Stress Level",
                 "Physical Activity Days Per Week"}
          /\ Cardinality(DOMAIN fill_values) = 9
          /\ fill_values["Diabetes"] = Scale
          /\ fill_values["Family History"] = 0
          /\ fill_values["Smoking"] = Scale
          /\ fill_values["Obesity"] = 0
          /\ fill_values["Alcohol Consumption"] = Scale
          /\ fill_values["Previous Heart Problems"] = Scale
          /\ fill_values["Medication Use"] = 0
          /\ fill_values["Stress Level"] = 5 * Scale
          /\ fill_values["Physical Activity Days Per Week"] = 3 * Scale
    /\ fillFile = "saved" => fill_values = SAVED_FILL_VALUES
DefaultsOnCorruptStore ==
    /\ fillFile = "corrupt"
    /\ fill_values["Stress Level"] = 5 * Scale
    /\ last.op = "transform"
    /\ last.out = "ok"

\* C11: get_model_info changes none of model, threshold and _is_loaded, on a
\* loaded pipeline and on one that is not loaded.
InfoReadOnly ==
    last.op = "get_model_info" =>
        /\ ~last.didLoad
        /\ is_loaded = last.wasLoaded
        /\ ~last.wasLoaded => model = "None" /\ threshold = DEFAULT_THRESHOLD

\* C12: a predict_single or predict call that fails at a coercion
\* leaves model, threshold and _is_loaded as they were before the call.
CoercionFailureChangesNothing ==
    last.op \in {"predict_single", "predict"}
      /\ last.at \in {"label_encoder", "astype"} =>
        /\ ~last.didLoad
        /\ is_loaded = last.wasLoaded

\* C13: a request that finds the model artifact present but unreadable, on a
\* pipeline that is not loaded, is answered with 503 like one that finds it
\* missing, never with another error and never with a prediction.
CorruptIsUnavailable ==
    last.op \in {"predict_single", "predict", "get_model_info"}
      /\ last.mfile = "corrupt" /\ ~last.wasLoaded =>
        /\ last.http = 503
        /\ last.res = <<>>

\* The model's probability for row i of a table is the one it gives that row alone.
RowInPlace(batch, i, single) ==
    single.out = "ok" => batch.proba[i] = single.proba[1]

\* C14: predict returns exactly one result row per input row, in input order:
\* row i carries the input's id of row i when the input has an id column and
\* the 0-based position i-1 otherwise, and the model's probability of row i.
OneRowPerInput ==
    last.op = "predict" /\ last.out = "ok" =>
        /\ Len(last.res) = inp.n
        /\ \A i \in 1..inp.n :
              /\ last.res[i].id = IF "id" \in Range(inp.cols)
                                  THEN inp.col["id"].cells[i] ELSE IntC(i - 1)
              /\ RowInPlace(last, i, RowAlone(i))
IdsCarriedInOrder ==
    /\ last.op = "predict"
    /\ last.out = "ok"
    /\ inp.n = 2
    /\ "id" \in Range(inp.cols)
    /\ last.res[1].id = IntC(7)
    /\ last.res[2].id = IntC(8)
    /\ inp.col["Gender"].cells[1] # inp.col["Gender"].cells[2]

\* C15: the threshold is fixed once at construction and never changes while
\* the instance serves: every read of it gives the same value.
ThresholdImmutable == [][phase = "serving" => threshold' = threshold]_vars

\* The record of a transform call agrees with the result t.
SameOutput(l, t) ==
    /\ l.out = IF t.ok THEN "ok" ELSE t.err
    /\ l.at = t.at
    /\ l.X = IF t.ok THEN t.df ELSE NoFrame

\* C16: determinism: transform of a frame gives what a newly constructed
\* instance gives for it, whatever calls were made before on the instance.
TransformDeterministic ==
    last.op = "transform" =>
        SameOutput(last, transform(inp, init_fill_values(fillFile)))
TransformAfterOtherCalls ==
    /\ last.op = "transform"
    /\ last.out = "ok"
    /\ last.wasLoaded
    /\ loads = 1
    /\ HasCol(inp, "Smoking")
    /\ IsNaN(inp.col["Smoking"].cells[1])

\* The frame without its non-feature columns.
BaseOnly(df) ==
    [n |-> df.n,
     cols |-> SelectSeq(df.cols, LAMBDA c : c \in Range(BASE_FEATURES)),
     col |-> [c \in (DOMAIN df.col) \cap Range(BASE_FEATURES) |-> df.col[c]]]
\* Two answers give the same outcome, decisions and probabilities.
SameAnswer(a, b) ==
    /\ a.out = b.out
    /\ a.at = b.at
    /\ a.proba = b.proba
    /\ Len(a.res) = Len(b.res)
    /\ \A i \in 1..Len(a.res) :
          /\ a.res[i].prediction = b.res[i].prediction
          /\ a.res[i].probability = b.res[i].probability
SingleOn(df, i) ==
    SinglePredicted(Pred, preprocess_single(df.cols, RowRecord(df, i), fill_values))
BatchOn(df) == BatchPredicted(Pred, transform(df, fill_values), Ids(df))

\* C17: the non-feature columns of the input (id, "Unnamed: 0", any other
\* column outside the base features) influence neither the output of
\* transform nor the decision nor the probability.
NonFeaturesIgnored ==
    /\ last.op = "transform" =>
          SameOutput(last, transform(BaseOnly(inp), fill_values))
    /\ last.op = "predict_single" =>
          SameAnswer(last, SingleOn(BaseOnly(inp), last.row))
    /\ last.op = "predict" => SameAnswer(last, BatchOn(BaseOnly(inp)))
ExtrasIgnored ==
    /\ last.op = "predict_single"
    /\ last.out = "ok"
    /\ {"id", "Unnamed: 0", "note"} \subseteq Range(inp.cols)
    /\ BaseOnly(inp) # inp

\* C18: an unrecognised Gender value does not make the encoding step raise:
\* the call fails, and only at the final float coercion.
UnknownGenderFailsAtCoercion ==
    last.op = "transform" /\ HasCol(inp, "Gender")
      /\ (\E i \in 1..inp.n : inp.col["Gender"].cells[i] = StrC("Other")) =>
        /\ last.out = "ValueError"
        /\ last.at = "astype"

\* C19: imputation: in every present column but Gender a non-missing value is
\* unchanged; a missing value of a present column is replaced by the stored
\* default when the fill map has the column, and is left missing otherwise.
Imputation ==
    last.op = "transform" /\ last.out = "ok" =>
        \A c \in Range(BASE_FEATURES) \cap Range(inp.cols) : \A i \in 1..inp.n :
            /\ IsNaN(inp.col[c].cells[i]) =>
                  last.X.col[c].cells[i] =
                      IF c \in DOMAIN fill_values THEN FltC(fill_values[c]) ELSE NaN
            /\ ~IsNaN(inp.col[c].cells[i]) /\ c # "Gender" =>
                  /\ ~IsNaN(last.X.col[c].cells[i])
                  /\ last.X.col[c].cells[i].n = inp.col[c].cells[i].n
ImputedAndLeftMissing ==
    /\ last.op = "transform"
    /\ last.out = "ok"
    /\ inp.n = 2
    /\ Range(inp.cols) = {"Smoking", "Age"}
    /\ inp.col["Smoking"].cells = <<NaN, FltC(0)>>
    /\ inp.col["Age"].cells = <<NaN, Tenths(5)>>
    /\ last.X.col["Smoking"].cells = <<FltC(fill_values["Smoking"]), FltC(0)>>
    /\ last.X.col["Age"].cells = <<NaN, Tenths(5)>>

\* The 0 or 1 that row i has in a binary column.
Bit(c, i) == inp.col[c].cells[i].n \div Scale
BinaryInput ==
    /\ BinaryCols \subseteq Range(inp.cols)
    /\ \A c \in BinaryCols : \A i \in 1..inp.n :
          IsNum(inp.col[c].cells[i]) /\ inp.col[c].cells[i].n \in {0, Scale}

\* C20: for binary Smoking, Diabetes, Obesity and Family History the pairwise
\* features are the products: Smoking_Diabetes = Smoking * Diabetes,
\* Smoking_FamilyHistory = Smoking * Family History and Obesity_Diabetes =
\* Obesity * Diabetes.
PairwiseProducts ==
    last.op = "transform" /\ last.out = "ok" /\ BinaryInput =>
        \A i \in 1..inp.n :
            /\ last.X.col["Smoking_Diabetes"].cells[i] =
                  FltC(Bit("Smoking", i) * Bit("Diabetes", i) * Scale)
            /\ last.X.col["Smoking_FamilyHistory"].cells[i] =
                  FltC(Bit("Smoking", i) * Bit("Family History", i) * Scale)
            /\ last.X.col["Obesity_Diabetes"].cells[i] =
                  FltC(Bit("Obesity", i) * Bit("Diabetes", i) * Scale)
OneOneZeroZero ==
    /\ last.op = "transform"
    /\ last.out = "ok"
    /\ BinaryInput
    /\ Bit("Smoking", 1) = 1 /\ Bit("Diabetes", 1) = 1
    /\ Bit("Obesity", 1) = 0 /\ Bit("Family History", 1) = 0
    /\ last.X.col["Smoking_Diabetes"].cells[1] = FltC(Scale)
    /\ last.X.col["Smoking_FamilyHistory"].cells[1] = FltC(0)
    /\ last.X.col["Obesity_Diabetes"].cells[1] = FltC(0)

\* The systolic and diastolic pressure of row i as transform outputs them.
Systolic(i) == last.X.col["Systolic blood pressure"].cells[i]
Diastolic(i) == last.X.col["Diastolic blood pressure"].cells[i]

\* C21: for every input Pulse_Pressure = Systolic - Diastolic and
\* Mean_Arterial_Pressure = Diastolic + (Systolic - Diastolic) / 3, both
\* missing when a pressure is missing; systolic 0.8 and diastolic 0.5 give
\* 0.3 and 0.6.
PressureFeatures ==
    last.op = "transform" /\ last.out = "ok" =>
        \A i \in 1..inp.n :
            IF IsNaN(Systolic(i)) \/ IsNaN(Diastolic(i))
            THEN /\ IsNaN(last.X.col["Pulse_Pressure"].cells[i])
                 /\ IsNaN(last.X.col["Mean_Arterial_Pressure"].cells[i])
            ELSE /\ last.X.col["Pulse_Pressure"].cells[i] =
                        FltC(Systolic(i).n - Diastolic(i).n)
                 /\ last.X.col["Mean_Arterial_Pressure"].cells[i] =
                        FltC(Diastolic(i).n + (Systolic(i).n - Diastolic(i).n) \div 3)
                 /\ Systolic(i) = Tenths(8) /\ Diastolic(i) = Tenths(5) =>
                        /\ last.X.col["Pulse_Pressure"].cells[i] = Tenths(3)
                        /\ last.X.col["Mean_Arterial_Pressure"].cells[i] = Tenths(6)
EightAndFive ==
    /\ last.op = "transform"
    /\ last.out = "ok"
    /\ PressureCols \subseteq Range(inp.cols)
    /\ inp.col["Systolic blood pressure"].cells[1] = Tenths(8)
    /\ inp.col["Diastolic blood pressure"].cells[1] = Tenths(5)
    /\ last.X.col["Pulse_Pressure"].cells[1] = Tenths(3)
    /\ last.X.col["Mean_Arterial_Pressure"].cells[1] = Tenths(6)

\* C22: predict_single and predict decide on the unrounded probability: the
\* decision is 1 exactly when the model's probability is at least the
\* threshold, the reported probability is that probability rounded to 4
\* decimals, and a probability below the threshold that rounds up to it or
\* above it still gives decision 0.
DecisionBeforeRounding ==
    last.op \in {"predict_single", "predict"} /\ last.out = "ok" =>
        \A i \in 1..Len(last.res) :
            /\ (last.res[i].prediction = 1) <=> (last.proba[i].u >= threshold)
            /\ 100 * last.res[i].probability - last.proba[i].u \in -50..50
            /\ 100 * last.res[i].probability >= threshold
                  /\ threshold > last.proba[i].u => last.res[i].prediction = 0
RoundedUpAcrossThreshold ==
    /\ last.op \in {"predict_single", "predict"}
    /\ last.out = "ok"
    /\ \E i \in 1..Len(last.res) :
          /\ last.proba[i].u < threshold
          /\ 100 * last.res[i].probability >= threshold
          /\ last.res[i].prediction = 0

\* The pipeline holds the model artifact and the persisted-or-default threshold.
FullyLoaded ==
    /\ model \in Models
    /\ model = modelFile
    /\ threshold = IF thresholdFile # {} THEN SAVED_THRESHOLD ELSE DEFAULT_THRESHOLD

\* C23: in every state of concurrent callers over unchanged artifacts,
\* _is_loaded implies that model is the loaded artifact and threshold the
\* persisted threshold if there is one, else the default; _is_loaded is set
\* only after both are assigned, a load that raises leaves it false, and every
\* prediction decides with a fully loaded pipeline.
LoadedIsComplete ==
    /\ is_loaded => FullyLoaded
    /\ \A t \in Threads :
          pc[t] \in {"set_loaded", "compute", "loaded_compute"} => FullyLoaded
    /\ modelFile \notin Models => ~is_loaded /\ last.out # "ok"
    /\ last.out = "ok" => last.res[1].threshold_used = threshold /\ FullyLoaded
DecidedDuringReload ==
    /\ is_loaded
    /\ loads = 2
    /\ last.out = "ok"
    /\ \E t \in Threads : pc[t] = "joblib_threshold"
====
